---------------------------- MODULE Spec2Model ----------------------------
(***************************************************************************)
(* Model of src/main.mts: the Silo tag module.  returnTags(chainId, apiKey) *)
(* resolves a subgraph URL, then pages through the subgraph with a         *)
(* createdTimestamp cursor, turning every record with a valid name into a  *)
(* ContractTag.                                                            *)
(*                                                                         *)
(* Conventions.  A JavaScript string whose characters matter (a silo name,  *)
(* an API key) is a sequence of one-character strings; a string built by a  *)
(* template literal is the sequence of its parts.  An optional JSON field   *)
(* is a sequence of length 0 (absent) or 1 (present).  A function that may  *)
(* throw returns [ok, value, error].                                        *)
(***************************************************************************)
EXTENDS Integers, Sequences, FiniteSets, TLC

(***************************************************************************)
(* Program constants.                                                      *)
(***************************************************************************)
\* GET_SILOS_QUERY `first: 1000`, and the literal of `silos.length === 1000`.
PageSize == 1000
\* `const maxNameLength = 45` in transformSilosToTags.
maxNameLength == 45
\* `maxLength - 3` in truncateString: the room kept for the ellipsis.
EllipsisLength == 3

(***************************************************************************)
(* Bounds of the model.                                                    *)
(***************************************************************************)
\* The mocked subgraph answers with a full page at most this many times per
\* invocation, so an invocation issues at most MaxFullPages + 1 requests.
MaxFullPages == 2
\* The finite source of SpecSource holds up to MaxSourcePages full pages
\* (plus or minus one record).
MaxSourcePages == 2
\* In the finite source up to MaxDup consecutive records share a timestamp.
MaxDup == 2
\* Names of SpecNames are a short core padded to maxNameLength + MaxOver.
MaxOver == 5

(***************************************************************************)
(* Generic helpers.                                                        *)
(***************************************************************************)
None == <<>>
Some(x) == <<x>>
IsSome(o) == Len(o) = 1

Ok(v) == [ok |-> TRUE, value |-> v, error |-> [name |-> "", message |-> <<>>]]
Throw(e) == [ok |-> FALSE, value |-> <<>>, error |-> e]

Rep(c, n) == [k \in 1..n |-> c]

SetMin(S) == CHOOSE x \in S : \A y \in S : x <= y

\* Array.prototype.join
RECURSIVE Join(_, _)
Join(parts, sep) ==
    IF Len(parts) = 0 THEN <<>>
    ELSE IF Len(parts) = 1 THEN <<parts[1]>>
    ELSE <<parts[1], sep>> \o Join(Tail(parts), sep)

\* `new Error(message)`
Error(message) == [name |-> "Error", message |-> message]

\* Error.prototype.toString, as used by the template literal `${error}`.
ErrorToString(e) ==
    IF e.message = <<>> THEN <<e.name>> ELSE <<e.name, ": ">> \o e.message

(***************************************************************************)
(* SUBGRAPH_URLS and the URL resolver.                                     *)
(***************************************************************************)
\* Object.keys(SUBGRAPH_URLS): integer-like keys in ascending numeric order.
SubgraphKeys == <<"1", "10", "8453", "42161">>

Placeholder == "[api-key]"

SUBGRAPH_URLS ==
    [k \in {SubgraphKeys[n] : n \in 1..Len(SubgraphKeys)} |->
        [decentralized |->
            <<"https://gateway.thegraph.com/api/", Placeholder, "/subgraphs/id/",
              CASE k = "1"     -> "GTEyHhRmhRRJkQfrDWsapcZ8sBKAka4GFej6gn3BpJNq"
                [] k = "10"    -> "HVhUwbDrY5uGyz5u3bvKQVfmagVet3Uwy7jWjFrvT6s6"
                [] k = "8453"  -> "HzQEXpsJuq7XQa4zXEJU38aUnG7mgZ6gA74HauHyYZzQ"
                [] k = "42161" -> "2ufoztRpybsgogPVW6j9NTn1JmBWFYPKbP7pAabizADU">>]]

\* Property names every object literal inherits from Object.prototype: a lookup
\* SUBGRAPH_URLS[name] yields a (truthy) inherited value with no `decentralized`.
ObjectPrototypeKeys == {"constructor", "toString", "__proto__"}

\* SUBGRAPH_URLS[chainId]: the own entry, an inherited value, or undefined.
LookupUrls(chainId) ==
    IF chainId \in DOMAIN SUBGRAPH_URLS
    THEN [truthy |-> TRUE, decentralized |-> Some(SUBGRAPH_URLS[chainId].decentralized)]
    ELSE IF chainId \in ObjectPrototypeKeys
    THEN [truthy |-> TRUE, decentralized |-> None]
    ELSE [truthy |-> FALSE, decentralized |-> None]

\* The chain identifiers the callers of the model pass.
ChainIds ==
    {"1", "10", "8453", "42161", "2", "abc", "", "01", "constructor", "__proto__"}

\* isNaN(Number(chainId)) on the identifiers of ChainIds: Number("") is 0 and
\* Number("01") is 1; the other non-digit strings convert to NaN.
IsNaNNumber(chainId) == chainId \in {"abc", "constructor", "toString", "__proto__"}

\* A UTF-16 code unit that is half of a surrogate pair, standing alone.
LoneSurrogate == "\\uD800"

\* encodeURIComponent on one code unit: unreserved characters are kept, any
\* other is percent-encoded, and a lone surrogate makes the call throw.
Unreserved == {"k", "e", "y", "-", "_", "."}
PercentCode(c) ==
    CASE c = "/" -> "%2F"
      [] c = "$" -> "%24"
      [] c = " " -> "%20"
      [] OTHER   -> c

encodeURIComponent(text) ==
    IF \E k \in 1..Len(text) : text[k] = LoneSurrogate
    THEN Throw([name |-> "URIError", message |-> <<"URI malformed">>])
    ELSE Ok([k \in 1..Len(text) |->
                IF text[k] \in Unreserved THEN text[k] ELSE PercentCode(text[k])])

\* String.prototype.replace(pattern, replacement) with a string pattern: the
\* first occurrence only.
ReplaceFirst(parts, pattern, replacement) ==
    LET hits == {k \in 1..Len(parts) : parts[k] = pattern}
    IN  IF hits = {} THEN parts
        ELSE LET k == SetMin(hits)
             IN  SubSeq(parts, 1, k - 1) \o replacement \o SubSeq(parts, k + 1, Len(parts))

UnsupportedChainError(chainId) ==
    Error(<<"Unsupported or invalid Chain ID provided: ", chainId,
            ". Only the following values are accepted: ">> \o Join(SubgraphKeys, ", "))

\* Mutant: the isNaN test dropped, so an inherited property passes the guard
\* and `urls.decentralized.replace` is a call on undefined.
prepareUrlNoNaNTest(chainId, apiKey) ==
    LET urls == LookupUrls(chainId)
    IN  IF ~urls.truthy
        THEN Throw(UnsupportedChainError(chainId))
        ELSE IF ~IsSome(urls.decentralized)
        THEN Throw([name |-> "TypeError",
                    message |-> <<"Cannot read properties of undefined (reading 'replace')">>])
        ELSE LET enc == encodeURIComponent(apiKey)
             IN  IF ~enc.ok THEN Throw(enc.error)
                 ELSE Ok(ReplaceFirst(urls.decentralized[1], Placeholder, enc.value))

prepareUrl(chainId, apiKey) ==
    LET urls == LookupUrls(chainId)
    IN  IF ~urls.truthy \/ IsNaNNumber(chainId)
        THEN Throw(UnsupportedChainError(chainId))
        ELSE LET enc == encodeURIComponent(apiKey)
             IN  IF ~enc.ok THEN Throw(enc.error)
                 ELSE Ok(ReplaceFirst(urls.decentralized[1], Placeholder, enc.value))

(***************************************************************************)
(* Name validation and truncation.                                         *)
(***************************************************************************)
\* What String.prototype.trim removes, among the characters of the model.
WhiteSpace == {" ", "\t", "\n"}

\* The first index at or after k, and the last at or before k, whose character
\* is not white space (Len(text) + 1, or 0, when there is none).
RECURSIVE TrimStart(_, _)
TrimStart(text, k) ==
    IF k > Len(text) \/ text[k] \notin WhiteSpace THEN k ELSE TrimStart(text, k + 1)

RECURSIVE TrimEnd(_, _)
TrimEnd(text, k) ==
    IF k < 1 \/ text[k] \notin WhiteSpace THEN k ELSE TrimEnd(text, k - 1)

\* String.prototype.trim
trim(text) == SubSeq(text, TrimStart(text, 1), TrimEnd(text, Len(text)))

\* /<[^>]*>/.test(text): a "<", then characters other than ">", then a ">".
containsHtmlTag(text) ==
    \E a \in 1..Len(text) :
        /\ text[a] = "<"
        /\ \E b \in (a + 1)..Len(text) :
              /\ text[b] = ">"
              /\ \A k \in (a + 1)..(b - 1) : text[k] # ">"

\* Mutant: the emptiness test without the trim.
containsInvalidValueNoTrim(text) ==
    LET containsHtml == containsHtmlTag(text)
        isEmpty == text = <<>>
    IN  isEmpty \/ containsHtml

containsInvalidValue(text) ==
    LET containsHtml == containsHtmlTag(text)
        isEmpty == trim(text) = <<>>
    IN  isEmpty \/ containsHtml

Ellipsis == Rep(".", EllipsisLength)

\* Mutant: the ellipsis appended to maxLength kept characters.
truncateStringNoRoom(text, maxLength) ==
    IF Len(text) > maxLength
    THEN SubSeq(text, 1, maxLength) \o Ellipsis
    ELSE text

truncateString(text, maxLength) ==
    IF Len(text) > maxLength
    THEN SubSeq(text, 1, maxLength - EllipsisLength) \o Ellipsis
    ELSE text

(***************************************************************************)
(* The record transformer.                                                 *)
(***************************************************************************)
SiloSuffix == <<" ", "S", "i", "l", "o">>

\* The object literal of transformSilosToTags, for one valid silo.
ContractTag(chainId, silo) ==
    LET truncatedNameText == truncateString(silo.name, maxNameLength)
    IN  ("Contract Address" :> <<"eip155:", chainId, ":", silo.id>>)
     @@ ("Public Name Tag"  :> truncatedNameText \o SiloSuffix)
     @@ ("Project Name"     :> <<"Silo v1">>)
     @@ ("UI/Website Link"  :> <<"https://app.silo.finance/">>)
     @@ ("Public Note"      :> <<"Silo v1's official ">> \o silo.name
                                  \o <<" Silo contract.">>)

RejectedLine(silo) ==
    <<"Silo: ", silo.id, " rejected due to invalid name - Name: ">> \o silo.name

IsRejected(silo) == containsInvalidValue(silo.name)
IsAccepted(silo) == ~containsInvalidValue(silo.name)

\* validSilos.map(...): the tag of every valid silo, in order.  (The list is
\* bound once, so that it is computed once however the result is read.)
TagsOf(chainId, validSilos) ==
    CHOOSE mapped \in {[k \in 1..Len(s) |-> ContractTag(chainId, s[k])] :
                          s \in {validSilos}} : TRUE

\* The lines pushed to rejectedNames, in order.
RejectedLines(rejected) ==
    CHOOSE mapped \in {[k \in 1..Len(s) |-> RejectedLine(s[k])] :
                          s \in {rejected}} : TRUE

\* transformSilosToTags: the tags of the valid silos, in page order, and what
\* the call writes to the console (one line when any silo was rejected).
transformSilosToTags(chainId, silos) ==
    LET validSilos == SelectSeq(silos, IsAccepted)
        rejected == SelectSeq(silos, IsRejected)
        rejectedNames == RejectedLines(rejected)
    IN  [tags |-> TagsOf(chainId, validSilos),
         console |-> IF Len(rejectedNames) > 0
                     THEN <<[level |-> "log", text |-> <<"Rejected silos:", rejectedNames>>]>>
                     ELSE <<>>]

(***************************************************************************)
(* fetchData: one page request.  It is suspended twice, at `await fetch`   *)
(* and at `await response.json()`.                                         *)
(***************************************************************************)
\* node-fetch's Response.ok
ResponseOk(status) == status >= 200 /\ status < 300

\* fetchData from the settling of `fetch` to the call of response.json().
fetchDataOnResponse(response) ==
    IF response.kind = "reject"
    THEN Throw([name |-> "FetchError", message |-> <<"request failed, reason: ", "ECONNRESET">>])
    ELSE IF ~ResponseOk(response.status)
    THEN Throw(Error(<<"HTTP error: ", ToString(response.status)>>))
    ELSE Ok(response.body)

GraphQLErrorLog(errors) ==
    [k \in 1..Len(errors) |->
        [level |-> "error", text |-> <<"GraphQL error: ", errors[k].message>>]]

\* Mutant: the data test made before the errors test.
fetchDataOnJsonDataFirst(body) ==
    IF ~body.json
    THEN [result |-> Throw([name |-> "FetchError", message |-> <<"invalid json response body">>]),
          console |-> <<>>]
    ELSE IF IsSome(body.data) /\ IsSome(body.data[1].silos)
    THEN [result |-> Ok(body.data[1].silos[1]), console |-> <<>>]
    ELSE IF IsSome(body.errors)
    THEN [result |-> Throw(Error(<<"GraphQL errors occurred: see logs for details.">>)),
          console |-> GraphQLErrorLog(body.errors[1])]
    ELSE [result |-> Throw(Error(<<"No silos data found.">>)), console |-> <<>>]

\* fetchData from the settling of response.json() to its return or throw.
fetchDataOnJson(body) ==
    IF ~body.json
    THEN [result |-> Throw([name |-> "FetchError", message |-> <<"invalid json response body">>]),
          console |-> <<>>]
    ELSE IF IsSome(body.errors)
    THEN [result |-> Throw(Error(<<"GraphQL errors occurred: see logs for details.">>)),
          console |-> GraphQLErrorLog(body.errors[1])]
    ELSE IF ~IsSome(body.data) \/ ~IsSome(body.data[1].silos)
    THEN [result |-> Throw(Error(<<"No silos data found.">>)), console |-> <<>>]
    ELSE [result |-> Ok(body.data[1].silos[1]), console |-> <<>>]

(***************************************************************************)
(* The pieces of TagService.returnTags.                                    *)
(***************************************************************************)
\* isError: every value thrown in the model is an object with a string message.
isError(e) == e.name # ""

\* Mutant: the caught error rethrown as it is.
CatchRethrow(error) == [error |-> error, console |-> <<>>]

\* The catch block: what is logged and what is thrown.
Catch(error) ==
    IF isError(error)
    THEN [error |-> Error(<<"Failed fetching data", ": ">> \o ErrorToString(error)),
          console |-> <<[level |-> "error",
                         text |-> <<"An error occurred: ">> \o error.message]>>]
    ELSE [error |-> Error(<<"An unknown error occurred during fetch operation.">>),
          console |-> <<[level |-> "error", text |-> <<"An unknown error occurred.">>]>>]

\* Mutant: continue on any non-empty page.
isMoreOnNonEmpty(silos) == Len(silos) > 0

\* `isMore = silos.length === 1000`
isMoreAfter(silos) == Len(silos) = PageSize

\* Math.max over the createdTimestamp of silos[lo..hi], by halving.  (The two
\* halves are bound once each, so that each is computed once.)
RECURSIVE MaxTimestamp(_, _, _)
MaxTimestamp(silos, lo, hi) ==
    IF lo = hi THEN silos[lo].createdTimestamp
    ELSE CHOOSE m \in {IF a >= b THEN a ELSE b :
                          a \in {MaxTimestamp(silos, lo, (lo + hi) \div 2)},
                          b \in {MaxTimestamp(silos, ((lo + hi) \div 2) + 1, hi)}} : TRUE

\* Mutants: the timestamp of the page's last, or first, record.
lastTimestampOfLastRecord(silos) == silos[Len(silos)].createdTimestamp
lastTimestampOfFirstRecord(silos) == silos[1].createdTimestamp

\* `lastTimestamp = Math.max(...silos.map(s => s.createdTimestamp))`, which
\* runs on a full (so non-empty) page only.
lastTimestampAfter(silos) ==
    CHOOSE m \in {MaxTimestamp(page, 1, Len(page)) : page \in {silos}} : TRUE

(***************************************************************************)
(* Inputs: silo records, pages and responses of the mocked subgraph.       *)
(***************************************************************************)
\* Names the silos of a generated page take in turn: valid ones, blank ones,
\* ones holding a tag, one of exactly maxNameLength characters and longer ones.
NamePool ==
    << <<"A", "l", "p", "h", "a">>,
       <<>>,
       <<" ", "\t">>,
       <<"<", "b", ">", "E", "v", "i", "l", "<", "/", "b", ">">>,
       <<"G", "o", "o", "d", " ", "S", "i", "l", "o">>,
       Rep("x", maxNameLength + 5),
       <<"a", ">", "b", "<">>,
       Rep("y", maxNameLength) >>

\* A page of n silos with identifiers base+1 .. base+n.  Shape "asc" has
\* ascending timestamps; shape "peak" has its largest timestamp on the first
\* record, as an unordered mock may answer.
MkPage(n, base, shape) ==
    [k \in 1..n |->
        [id |-> ToString(base + k),
         name |-> NamePool[((k - 1) % Len(NamePool)) + 1],
         createdTimestamp |->
            IF shape = "peak" /\ k = 1 THEN base + n + 1 ELSE base + k]]

SmallPages == {MkPage(n, 0, "asc") : n \in {0, 2, 5, PageSize - 1}}
FullPeakPage == MkPage(PageSize, 2 * PageSize, "peak")
FullAscPage == MkPage(PageSize, 0, "asc")
FullPages == {FullPeakPage, FullAscPage}

NotJson == [json |-> FALSE, errors |-> None, data |-> None]
JsonBody(errors, data) == [json |-> TRUE, errors |-> errors, data |-> data]
DataWith(silos) == Some([silos |-> Some(silos)])
DataNoSilos == Some([silos |-> None])

ErrorLists == {<<>>, <<[message |-> "bad query"], [message |-> "timeout"]>>}

\* The bodies the mock answers with; full pages only when `full`.
MockBodies(full) ==
    {NotJson}
    \cup {JsonBody(Some(e), d) : e \in ErrorLists,
                                 d \in {None, DataNoSilos, DataWith(MkPage(2, 0, "asc"))}}
    \cup {JsonBody(None, d) : d \in {None, DataNoSilos}}
    \cup {JsonBody(None, DataWith(p)) : p \in SmallPages \cup (IF full THEN FullPages ELSE {})}

Rejection == [kind |-> "reject", status |-> 0, body |-> NotJson]
HttpResponse(status, body) == [kind |-> "http", status |-> status, body |-> body]

MockResponses(full) ==
    {Rejection}
    \cup {HttpResponse(200, b) : b \in MockBodies(full)}
    \cup {HttpResponse(st, b) : st \in {404, 500},
                                b \in {NotJson, JsonBody(None, DataWith(MkPage(2, 0, "asc")))}}

GoodKey == <<"k", "e", "y", "/", "$">>
ApiKeys == {GoodKey, <<"k", LoneSurrogate>>}

(***************************************************************************)
(* State.                                                                  *)
(***************************************************************************)
VARIABLES
    pc,             \* per invocation: "idle", "awaitFetch", "awaitJson", "done"
    args,           \* per invocation: the arguments chainId and apiKey
    url,            \* per invocation: `const url`
    allTags,        \* `let allTags`
    lastTimestamp,  \* `let lastTimestamp`
    isMore,         \* `let isMore`
    settled,        \* per invocation: the state of the promise returnTags returned
    inflight,       \* per invocation: the request `fetch` has sent, if unanswered
    response,       \* per invocation: the body response.json() is reading
    console,        \* per invocation: what its latest step wrote to the console
    requests,       \* history: the requests each invocation sent
    received,       \* history: the responses each invocation received
    source          \* the records of the subgraph, in SpecSource (else empty)

vars == <<pc, args, url, allTags, lastTimestamp, isMore, settled, inflight,
          response, console, requests, received, source>>

\* The invocations of returnTags.
Invs == {"A", "B"}

\* Mutant: the three `let` variables hoisted out of the arrow function, so
\* that every invocation uses the same ones.
SlotShared(i) == "A"

\* allTags, lastTimestamp and isMore are `let` variables of the arrow function
\* body: each invocation has its own.
Slot(i) == i

NoError == [name |-> "", message |-> <<>>]
Pending == [state |-> "pending", value |-> <<>>, reason |-> NoError]
Fulfilled(v) == [state |-> "fulfilled", value |-> v, reason |-> NoError]
Rejected(e) == [state |-> "rejected", value |-> <<>>, reason |-> e]

InitWith(src) ==
    /\ pc = [i \in Invs |-> "idle"]
    /\ args = [i \in Invs |-> [chainId |-> "", apiKey |-> <<>>]]
    /\ url = [i \in Invs |-> <<>>]
    /\ allTags = [i \in Invs |-> <<>>]
    /\ lastTimestamp = [i \in Invs |-> 0]
    /\ isMore = [i \in Invs |-> FALSE]
    /\ settled = [i \in Invs |-> Pending]
    /\ inflight = [i \in Invs |-> None]
    /\ response = [i \in Invs |-> None]
    /\ console = [i \in Invs |-> <<>>]
    /\ requests = [i \in Invs |-> <<>>]
    /\ received = [i \in Invs |-> <<>>]
    /\ source = src

Init == InitWith(<<>>)

\* The request fetchData posts: the URL and the JSON body's variables.
Request(u, cursor) == [url |-> u, lastTimestamp |-> cursor]

(***************************************************************************)
(* returnTags, one action per stretch of code between two awaits.          *)
(***************************************************************************)
\* The call: the `let`s, prepareUrl, and the first pass of the loop up to
\* `await fetch(...)`.
Call(i, chainId, apiKey) ==
    /\ pc[i] = "idle"
    /\ args' = [args EXCEPT ![i] = [chainId |-> chainId, apiKey |-> apiKey]]
    /\ allTags' = [allTags EXCEPT ![Slot(i)] = <<>>]
    /\ lastTimestamp' = [lastTimestamp EXCEPT ![Slot(i)] = 0]
    /\ isMore' = [isMore EXCEPT ![Slot(i)] = TRUE]
    /\ LET u == prepareUrl(chainId, apiKey)
       IN  IF u.ok
           THEN LET req == Request(u.value, lastTimestamp'[Slot(i)])
                IN  /\ url' = [url EXCEPT ![i] = u.value]
                    /\ inflight' = [inflight EXCEPT ![i] = Some(req)]
                    /\ requests' = [requests EXCEPT ![i] = Append(@, req)]
                    /\ settled' = settled
                    /\ pc' = [pc EXCEPT ![i] = "awaitFetch"]
           ELSE /\ settled' = [settled EXCEPT ![i] = Rejected(u.error)]
                /\ pc' = [pc EXCEPT ![i] = "done"]
                /\ UNCHANGED <<url, inflight, requests>>
    /\ UNCHANGED <<response, console, received, source>>

\* `fetch` settles with `resp`: fetchData runs to `await response.json()`, or
\* throws into the catch block of returnTags.
OnResponse(i, resp) ==
    /\ pc[i] = "awaitFetch"
    /\ inflight' = [inflight EXCEPT ![i] = None]
    /\ received' = [received EXCEPT ![i] = Append(@, resp)]
    /\ LET r == fetchDataOnResponse(resp)
       IN  IF r.ok
           THEN /\ response' = [response EXCEPT ![i] = Some(r.value)]
                /\ pc' = [pc EXCEPT ![i] = "awaitJson"]
                /\ console' = [console EXCEPT ![i] = <<>>]
                /\ settled' = settled
           ELSE LET c == Catch(r.error)
                IN  /\ settled' = [settled EXCEPT ![i] = Rejected(c.error)]
                    /\ console' = [console EXCEPT ![i] = c.console]
                    /\ pc' = [pc EXCEPT ![i] = "done"]
                    /\ response' = response
    /\ UNCHANGED <<args, url, allTags, lastTimestamp, isMore, requests, source>>

\* response.json() settles: the rest of fetchData, then the rest of the loop
\* body, then either the next pass up to `await fetch(...)` or the return.
OnJson(i) ==
    /\ pc[i] = "awaitJson"
    /\ response' = [response EXCEPT ![i] = None]
    /\ LET f == fetchDataOnJson(response[i][1])
       IN  IF f.result.ok
           THEN LET silos == f.result.value
                    t == transformSilosToTags(args[i].chainId, silos)
                    more == isMoreAfter(silos)
                IN  /\ allTags' = [allTags EXCEPT ![Slot(i)] = @ \o t.tags]
                    /\ isMore' = [isMore EXCEPT ![Slot(i)] = more]
                    /\ lastTimestamp' =
                          IF more
                          THEN [lastTimestamp EXCEPT ![Slot(i)] = lastTimestampAfter(silos)]
                          ELSE lastTimestamp
                    /\ console' = [console EXCEPT ![i] = f.console \o t.console]
                    /\ IF isMore'[Slot(i)]
                       THEN LET req == Request(url[i], lastTimestamp'[Slot(i)])
                            IN  /\ inflight' = [inflight EXCEPT ![i] = Some(req)]
                                /\ requests' = [requests EXCEPT ![i] = Append(@, req)]
                                /\ pc' = [pc EXCEPT ![i] = "awaitFetch"]
                                /\ settled' = settled
                       ELSE /\ settled' = [settled EXCEPT ![i] = Fulfilled(allTags'[Slot(i)])]
                            /\ pc' = [pc EXCEPT ![i] = "done"]
                            /\ UNCHANGED <<inflight, requests>>
           ELSE LET c == Catch(f.result.error)
                IN  /\ settled' = [settled EXCEPT ![i] = Rejected(c.error)]
                    /\ console' = [console EXCEPT ![i] = f.console \o c.console]
                    /\ pc' = [pc EXCEPT ![i] = "done"]
                    /\ UNCHANGED <<allTags, lastTimestamp, isMore, inflight, requests>>
    /\ UNCHANGED <<args, url, received, source>>

(***************************************************************************)
(* Spec: one invocation against a mock that answers anything.              *)
(***************************************************************************)
\* The mock still answers invocation i with a full page.
FullAllowed(i) == Len(requests[i]) <= MaxFullPages

Next ==
    \/ \E c \in ChainIds, k \in ApiKeys : Call("A", c, k)
    \/ \E r \in MockResponses(FullAllowed("A")) : OnResponse("A", r)
    \/ OnJson("A")

Spec == Init /\ [][Next]_vars

(***************************************************************************)
(* Vocabulary of the properties: what the histories say.                   *)
(***************************************************************************)
\* The responses invocation i has finished with: all it received, but the
\* one whose body it is still reading.
Processed(i) == IF pc[i] = "awaitJson" THEN Len(received[i]) - 1 ELSE Len(received[i])

\* A response that delivers a page of records, read off the response itself:
\* success status, a JSON body, no errors list, data.silos present.
DeliversPage(r) ==
    /\ r.kind = "http"
    /\ r.status \in 200..299
    /\ r.body.json
    /\ r.body.errors = <<>>
    /\ r.body.data # <<>>
    /\ r.body.data[1].silos # <<>>

PageOf(r) == r.body.data[1].silos[1]

IsFullPage(r) == DeliversPage(r) /\ Len(PageOf(r)) = 1000

\* The sizes of the pages invocation i has received and processed.
PageSizes(i) == [k \in 1..Processed(i) |->
                    IF DeliversPage(received[i][k]) THEN Len(PageOf(received[i][k])) ELSE -1]

\* c is the largest createdTimestamp of a non-empty page.
IsMaxTimestampOf(c, page) ==
    /\ \A k \in 1..Len(page) : page[k].createdTimestamp <= c
    /\ \E k \in 1..Len(page) : page[k].createdTimestamp = c

\* A name that passes validation: a non-blank character, and no "<" with a
\* ">" somewhere after it.
ValidName(name) ==
    /\ \E k \in 1..Len(name) : name[k] \notin {" ", "\t", "\n"}
    /\ ~ \E a \in 1..Len(name) :
            name[a] = "<" /\ \E b \in (a + 1)..Len(name) : name[b] = ">"

HasValidName(silo) == ValidName(silo.name)

RECURSIVE Concat(_)
Concat(seqs) == IF seqs = <<>> THEN <<>> ELSE Head(seqs) \o Concat(Tail(seqs))

\* The records delivered to invocation i so far, in the order of delivery.
Delivered(i) ==
    Concat([k \in 1..Processed(i) |->
               IF DeliversPage(received[i][k]) THEN PageOf(received[i][k]) ELSE <<>>])

\* sub occurs in text as a run of consecutive parts.
Contains(text, sub) ==
    \E a \in 0..(Len(text) - Len(sub)) : SubSeq(text, a + 1, a + Len(sub)) = sub

StartsWith(text, sub) == Len(text) >= Len(sub) /\ SubSeq(text, 1, Len(sub)) = sub

(***************************************************************************)
(* C1.  After every processed page a further request is issued exactly     *)
(* when the page held 1000 records; the invocation returns right after the *)
(* first shorter (or empty) page, and a finished invocation has sent one   *)
(* request per response, so none after its last one.  A page of 1000 then  *)
(* a page of 5 make exactly 2 requests.                                    *)
(***************************************************************************)
C1_Continuation ==
    \A i \in Invs :
        /\ \A k \in 1..Processed(i) :
              (Len(requests[i]) > k) <=> IsFullPage(received[i][k])
        /\ (settled[i].state = "fulfilled") <=>
              /\ Processed(i) >= 1
              /\ pc[i] = "done"
              /\ DeliversPage(received[i][Processed(i)])
              /\ Len(PageOf(received[i][Processed(i)])) < 1000
        /\ pc[i] = "done" => Len(requests[i]) = Len(received[i])
        /\ (pc[i] = "done" /\ PageSizes(i) = <<1000, 5>>) => Len(requests[i]) = 2

C1_Witness ==
    /\ settled["A"].state = "fulfilled"
    /\ PageSizes("A") = <<1000, 5>>
    /\ Len(requests["A"]) = 2

(***************************************************************************)
(* C2.  The first request of an invocation carries cursor 0; every later   *)
(* request carries the largest createdTimestamp of the page just before    *)
(* it; a request is outstanding only when every response received so far   *)
(* has been processed.                                                     *)
(***************************************************************************)
C2_Cursors ==
    \A i \in Invs :
        /\ \A k \in 1..Len(requests[i]) :
              IF k = 1
              THEN requests[i][k].lastTimestamp = 0
              ELSE /\ k - 1 <= Processed(i)
                   /\ DeliversPage(received[i][k - 1])
                   /\ IsMaxTimestampOf(requests[i][k].lastTimestamp, PageOf(received[i][k - 1]))
        /\ Len(requests[i]) <= Processed(i) + 1
        /\ inflight[i] # <<>> =>
              /\ Len(requests[i]) = Len(received[i]) + 1
              /\ inflight[i][1] = requests[i][Len(requests[i])]
              /\ response[i] = <<>>

\* Three requests where the second page's largest timestamp is below the first
\* page's, and the first page's largest timestamp is not on its last record.
C2_Witness ==
    /\ Len(requests["A"]) = 3
    /\ requests["A"][3].lastTimestamp < requests["A"][2].lastTimestamp
    /\ LET p == PageOf(received["A"][1])
       IN  p[Len(p)].createdTimestamp # requests["A"][2].lastTimestamp

(***************************************************************************)
(* C3.  When a page request fails (the fetch is rejected, the status is    *)
(* not a success, the body is unusable), the invocation is rejected with   *)
(* an error whose message starts with "Failed fetching data" and contains  *)
(* the message of the failure, no tag is returned, and no request follows  *)
(* the failing one.                                                        *)
(***************************************************************************)
\* The error fetchData throws on response r (r does not deliver a page).
FetchFailure(r) ==
    IF fetchDataOnResponse(r).ok
    THEN fetchDataOnJson(r.body).result.error
    ELSE fetchDataOnResponse(r).error

C3_AbortOnFailure ==
    \A i \in Invs : \A k \in 1..Processed(i) :
        ~DeliversPage(received[i][k]) =>
            /\ k = Len(received[i])
            /\ pc[i] = "done"
            /\ settled[i].state = "rejected"
            /\ settled[i].value = <<>>
            /\ StartsWith(settled[i].reason.message, <<"Failed fetching data">>)
            /\ FetchFailure(received[i][k]).message # <<>>
            /\ Contains(settled[i].reason.message, FetchFailure(received[i][k]).message)
            /\ Len(requests[i]) = k
            /\ inflight[i] = <<>>

\* A failure on the second page, after tags were accumulated from the first.
C3_Witness ==
    /\ Processed("A") = 2
    /\ ~DeliversPage(received["A"][2])
    /\ Len(allTags["A"]) > 0
    /\ settled["A"].state = "rejected"

(***************************************************************************)
(* C4.  As claimed: for every chainId other than "1", "10", "8453" and     *)
(* "42161" returnTags is rejected with the unsupported-chain error, whose  *)
(* text lists exactly those four, and sends no request; for each of the    *)
(* four the resolver does not fail.                                        *)
(***************************************************************************)
UnsupportedChainText(chainId) ==
    <<"Unsupported or invalid Chain ID provided: ", chainId,
      ". Only the following values are accepted: ",
      "1", ", ", "10", ", ", "8453", ", ", "42161">>

RejectedAsUnsupported(i) ==
    /\ pc[i] = "done"
    /\ settled[i].state = "rejected"
    /\ settled[i].reason.name = "Error"
    /\ settled[i].reason.message = UnsupportedChainText(args[i].chainId)
    /\ requests[i] = <<>>
    /\ inflight[i] = <<>>

C4_AsClaimed ==
    \A i \in Invs : pc[i] # "idle" =>
        IF args[i].chainId \notin {"1", "10", "8453", "42161"}
        THEN RejectedAsUnsupported(i)
        ELSE Len(requests[i]) >= 1

(***************************************************************************)
(* C4, amended.  The same for the unsupported identifiers; for each of the *)
(* four supported ones the resolver never raises the unsupported-chain     *)
(* error, and it fails only when the API key holds a lone surrogate, which *)
(* encodeURIComponent rejects with a URIError, again before any request.   *)
(***************************************************************************)
HasLoneSurrogate(text) == \E k \in 1..Len(text) : text[k] = "\\uD800"

C4_UnsupportedChain ==
    \A i \in Invs : pc[i] # "idle" =>
        IF args[i].chainId \notin {"1", "10", "8453", "42161"}
        THEN RejectedAsUnsupported(i)
        ELSE IF HasLoneSurrogate(args[i].apiKey)
        THEN /\ pc[i] = "done"
             /\ settled[i].state = "rejected"
             /\ settled[i].reason.name = "URIError"
             /\ requests[i] = <<>>
        ELSE Len(requests[i]) >= 1

\* An inherited property name, refused before any request.
C4_Witness ==
    /\ args["A"].chainId = "constructor"
    /\ RejectedAsUnsupported("A")

(***************************************************************************)
(* C5.  At every point the accumulator holds one tag per delivered record  *)
(* with a valid name and none for the others, in the order of delivery,    *)
(* and that list is what a fulfilled invocation returns; a page holding    *)
(* rejected records never fails the invocation, and whether a request      *)
(* follows it depends on its raw size alone.                               *)
(***************************************************************************)
C5_Output ==
    \A i \in Invs :
        LET valid == SelectSeq(Delivered(i), HasValidName)
        IN  /\ Len(allTags[i]) = Len(valid)
            /\ \A k \in 1..Len(valid) :
                  /\ allTags[i][k]["Contract Address"]
                        = <<"eip155:", args[i].chainId, ":", valid[k].id>>
                  /\ allTags[i][k]["Public Note"]
                        = <<"Silo v1's official ">> \o valid[k].name \o <<" Silo contract.">>
            /\ settled[i].state = "fulfilled" => settled[i].value = allTags[i]
            /\ \A k \in 1..Processed(i) :
                  LET r == received[i][k]
                  IN  (DeliversPage(r) /\ \E n \in 1..Len(PageOf(r)) : ~ValidName(PageOf(r)[n].name))
                      => /\ (Len(requests[i]) > k) <=> (Len(PageOf(r)) = 1000)
                         /\ k = Len(received[i]) => settled[i].state # "rejected"

\* Two pages delivered, holding valid and invalid names, and the list returned.
C5_Witness ==
    /\ settled["A"].state = "fulfilled"
    /\ Processed("A") = 2
    /\ Len(allTags["A"]) > 0
    /\ Len(allTags["A"]) < Len(Delivered("A"))
    /\ Len(PageOf(received["A"][2])) > 0

(***************************************************************************)
(* C8.  fetchData classifies an HTTP response in this order: a non-success *)
(* status fails with the status code, whatever the body; else an errors    *)
(* list (even an empty one, even beside data) fails with the generic       *)
(* message, every message logged and none in the error; else a missing     *)
(* data or data.silos fails with the no-data error; else the records are   *)
(* returned, an empty list included.  (Bodies that are JSON objects.)      *)
(***************************************************************************)
WrappedMessage(m) == <<"Failed fetching data", ": ", "Error", ": ">> \o m

RejectedWith(i, m) ==
    /\ pc[i] = "done"
    /\ settled[i].state = "rejected"
    /\ settled[i].reason.message = WrappedMessage(m)

C8_Classification ==
    \A i \in Invs : \A k \in 1..Processed(i) :
        LET r == received[i][k]
        IN  r.kind = "http" =>
            IF r.status \notin 200..299
            THEN RejectedWith(i, <<"HTTP error: ", ToString(r.status)>>)
            ELSE r.body.json =>
                IF r.body.errors # <<>>
                THEN /\ RejectedWith(i, <<"GraphQL errors occurred: see logs for details.">>)
                     /\ \A n \in 1..Len(r.body.errors[1]) :
                           /\ \E l \in 1..Len(console[i]) :
                                 console[i][l] =
                                    [level |-> "error",
                                     text |-> <<"GraphQL error: ", r.body.errors[1][n].message>>]
                           /\ ~Contains(settled[i].reason.message,
                                        <<r.body.errors[1][n].message>>)
                ELSE IF r.body.data = <<>> \/ r.body.data[1].silos = <<>>
                THEN RejectedWith(i, <<"No silos data found.">>)
                ELSE /\ k = Len(received[i]) => settled[i].state # "rejected"
                     /\ (k = Len(received[i]) /\ Len(PageOf(r)) < 1000)
                           => /\ settled[i].state = "fulfilled"
                              /\ Len(Delivered(i)) >= Len(PageOf(r))

\* An errors list beside a data field with records: the generic failure.
C8_Witness ==
    /\ Processed("A") = 1
    /\ received["A"][1].body.errors # <<>>
    /\ received["A"][1].body.data # <<>>
    /\ received["A"][1].body.data[1].silos # <<>>
    /\ Len(received["A"][1].body.data[1].silos[1]) > 0
    /\ RejectedWith("A", <<"GraphQL errors occurred: see logs for details.">>)

(***************************************************************************)
(* SpecNames: one invocation on chain "1" whose single page holds one silo, *)
(* the name drawn from a family that crosses the truncation threshold.     *)
(***************************************************************************)
NameCores ==
    {<<>>, <<" ">>, <<"<", "b", ">">>, <<"S", "i", "l", "o", " ">>}

NameFamily ==
    {core \o Rep("n", pad) : core \in NameCores, pad \in 0..(maxNameLength + MaxOver)}

OneSiloResponse(name) ==
    HttpResponse(200, JsonBody(None,
        DataWith(<<[id |-> "0xabc", name |-> name, createdTimestamp |-> 7]>>)))

NextNames ==
    \/ Call("A", "1", GoodKey)
    \/ \E name \in NameFamily : OnResponse("A", OneSiloResponse(name))
    \/ OnJson("A")

SpecNames == Init /\ [][NextNames]_vars

(***************************************************************************)
(* C6.  For every valid record the name part of "Public Name Tag" (the     *)
(* text before " Silo") has at most 45 characters: a name longer than 45   *)
(* gives its first 42 characters followed by "...", 45 in all; a name of   *)
(* 45 or fewer is kept as it is; "Public Note" holds the whole name.       *)
(***************************************************************************)
NamePart(tag) == SubSeq(tag["Public Name Tag"], 1, Len(tag["Public Name Tag"]) - 5)

C6_Truncation ==
    \A i \in Invs :
        LET valid == SelectSeq(Delivered(i), HasValidName)
        IN  /\ Len(allTags[i]) = Len(valid)
            /\ \A k \in 1..Len(valid) :
                  LET name == valid[k].name
                      tag == allTags[i][k]
                  IN  /\ tag["Public Name Tag"] = NamePart(tag) \o <<" ", "S", "i", "l", "o">>
                      /\ Len(NamePart(tag)) <= 45
                      /\ Len(name) > 45 =>
                            /\ NamePart(tag) = SubSeq(name, 1, 42) \o <<".", ".", ".">>
                            /\ Len(NamePart(tag)) = 45
                      /\ Len(name) <= 45 => NamePart(tag) = name
                      /\ tag["Public Note"]
                            = <<"Silo v1's official ">> \o name \o <<" Silo contract.">>

\* A valid name of 46 characters, truncated.
C6_Witness ==
    /\ settled["A"].state = "fulfilled"
    /\ Len(allTags["A"]) = 1
    /\ Len(Delivered("A")[1].name) = 46
    /\ Len(NamePart(allTags["A"][1])) = 45

(***************************************************************************)
(* SpecConc: two invocations whose steps interleave freely.                *)
(***************************************************************************)
ConcChainIds == {"1", "10", "2"}

ConcResponses(full) ==
    {HttpResponse(500, NotJson),
     HttpResponse(200, JsonBody(None, DataWith(MkPage(2, 0, "asc"))))}
    \cup (IF full THEN {HttpResponse(200, JsonBody(None, DataWith(FullPeakPage)))} ELSE {})

NextConc ==
    \E i \in Invs :
        \/ \E c \in ConcChainIds : Call(i, c, GoodKey)
        \/ \E r \in ConcResponses(FullAllowed(i)) : OnResponse(i, r)
        \/ OnJson(i)

SpecConc == Init /\ [][NextConc]_vars

(***************************************************************************)
(* C7.  Each of two interleaved invocations sends the cursors, holds the   *)
(* cursor and the accumulator, and settles (returned list or failure) as   *)
(* it would running alone against the responses it received.               *)
(***************************************************************************)
\* returnTags run alone on chain chainId against the responses resps, from
\* the given cursor and accumulator.
RECURSIVE RunAlone(_, _, _, _)
RunAlone(chainId, resps, cursor, tags) ==
    IF resps = <<>>
    THEN [cursors |-> <<cursor>>, state |-> "pending", value |-> <<>>,
          tags |-> tags, cursor |-> cursor]
    ELSE IF ~DeliversPage(Head(resps))
    THEN [cursors |-> <<cursor>>, state |-> "rejected", value |-> <<>>,
          tags |-> tags, cursor |-> cursor]
    ELSE LET page == PageOf(Head(resps))
             more == tags \o transformSilosToTags(chainId, page).tags
         IN  IF Len(page) = 1000
             THEN LET rest == RunAlone(chainId, Tail(resps), lastTimestampAfter(page), more)
                  IN  [rest EXCEPT !.cursors = <<cursor>> \o @]
             ELSE [cursors |-> <<cursor>>, state |-> "fulfilled", value |-> more,
                   tags |-> more, cursor |-> cursor]

C7_Independence ==
    \A i \in Invs : Len(requests[i]) >= 1 =>
        LET alone == RunAlone(args[i].chainId, SubSeq(received[i], 1, Processed(i)), 0, <<>>)
        IN  /\ [k \in 1..Len(requests[i]) |-> requests[i][k].lastTimestamp] = alone.cursors
            /\ \A k \in 1..Len(requests[i]) :
                  requests[i][k].url = prepareUrl(args[i].chainId, args[i].apiKey).value
            /\ settled[i].state = alone.state
            /\ settled[i].value = alone.value
            /\ allTags[i] = alone.tags
            /\ lastTimestamp[i] = alone.cursor

\* Both invocations are in the middle of their second request, on different
\* chains, each holding the tags of its first page.
C7_Witness ==
    /\ pc["A"] = "awaitJson" /\ pc["B"] = "awaitFetch"
    /\ Len(requests["A"]) = 2 /\ Len(requests["B"]) = 2
    /\ args["A"].chainId # args["B"].chainId
    /\ Len(allTags["A"]) > 0 /\ Len(allTags["B"]) > 0

(***************************************************************************)
(* SpecSource: one invocation against a finite, unchanging subgraph that   *)
(* answers every request as GET_SILOS_QUERY asks.                          *)
(***************************************************************************)
\* n records in ascending timestamp order; d consecutive records share a
\* timestamp (the first group holds d - shift of them); timestamps start at
\* first, which is 0 or 1.
MkSource(n, d, shift, first) ==
    [k \in 1..n |->
        [id |-> ToString(k),
         name |-> NamePool[((k - 1) % Len(NamePool)) + 1],
         createdTimestamp |-> first + ((k - 1 + shift) \div d)]]

SourceLens == {k * PageSize + e : k \in 0..MaxSourcePages, e \in {-1, 0, 1}} \cap Nat

Sources ==
    UNION {{MkSource(n, d, shift, first) :
                n \in SourceLens, shift \in 0..(d - 1), first \in {0, 1}} : d \in 1..MaxDup}

\* GET_SILOS_QUERY: the first 1000, in ascending createdTimestamp order, of the
\* silos where createdTimestamp_gt: $lastTimestamp.
GET_SILOS_QUERY(src, cursor) ==
    LET After(silo) == silo.createdTimestamp > cursor
        matching == SelectSeq(src, After)
    IN  SubSeq(matching, 1, IF Len(matching) < PageSize THEN Len(matching) ELSE PageSize)

SourceResponse(src, req) ==
    HttpResponse(200, JsonBody(None, DataWith(GET_SILOS_QUERY(src, req.lastTimestamp))))

InitSource == \E src \in Sources : InitWith(src)

\* The subgraph answers the outstanding request.  (The request count is capped
\* above what any source of the model needs.)
Serve(i) ==
    /\ inflight[i] # None
    /\ Len(requests[i]) <= MaxSourcePages + 2
    /\ OnResponse(i, SourceResponse(source, inflight[i][1]))

NextSource ==
    \/ Call("A", "1", GoodKey)
    \/ Serve("A")
    \/ OnJson("A")

SpecSource == InitSource /\ [][NextSource]_vars

\* Every request is answered, every body arrives, and the event loop runs
\* the continuation.
SpecSourceFair == SpecSource /\ WF_vars(Serve("A")) /\ WF_vars(OnJson("A"))

(***************************************************************************)
(* C9.  As claimed: against the finite source, the returned list holds a   *)
(* tag for every source record with a valid name and a createdTimestamp    *)
(* greater than 0.                                                         *)
(***************************************************************************)
C9_Complete ==
    \A i \in Invs : settled[i].state = "fulfilled" =>
        {source[k].id : k \in {n \in 1..Len(source) :
                                  /\ ValidName(source[n].name)
                                  /\ source[n].createdTimestamp > 0}}
        \subseteq {settled[i].value[t]["Contract Address"][4] : t \in 1..Len(settled[i].value)}

(***************************************************************************)
(* C10.  Against the finite source of N records: every request's cursor is *)
(* greater than the one before, no record is delivered twice, at most      *)
(* floor(N/1000)+1 requests are sent (and when N is a positive multiple of *)
(* 1000 with distinct positive timestamps the last page is empty), and an  *)
(* invocation that was called eventually settles.                          *)
(***************************************************************************)
DistinctPositive(src) ==
    /\ \A k \in 1..Len(src) : src[k].createdTimestamp > 0
    /\ \A k \in 1..(Len(src) - 1) : src[k].createdTimestamp < src[k + 1].createdTimestamp

C10_Progress ==
    \A i \in Invs :
        /\ \A k \in 2..Len(requests[i]) :
              requests[i][k].lastTimestamp > requests[i][k - 1].lastTimestamp
        /\ LET delivered == Delivered(i)
           IN  Cardinality({delivered[k].id : k \in 1..Len(delivered)}) = Len(delivered)
        /\ Len(requests[i]) <= (Len(source) \div 1000) + 1
        /\ (/\ pc[i] = "done"
            /\ Len(source) > 0
            /\ Len(source) % 1000 = 0
            /\ DistinctPositive(source))
           => /\ Len(requests[i]) = (Len(source) \div 1000) + 1
              /\ PageOf(received[i][Len(received[i])]) = <<>>
              /\ settled[i].state = "fulfilled"

=============================================================================
